---- MODULE Spec2Model ----
(***************************************************************************)
(* WhatsBot (src/bot.py): a browser-driven messaging bot.  The model keeps *)
(* the session controller's handle (self.driver), every handle it ever     *)
(* opened, the mapping file read by getmap(), and for the operation in     *)
(* progress its arguments, the events it issued to the browser and its     *)
(* outcome.  Strings are sequences of one-character strings.               *)
(***************************************************************************)
EXTENDS Integers, Sequences, FiniteSets, TLC

VARIABLES
    CF,        \* the configuration loaded once at import (bot.py:313): bot.headless, bot.name
    mapfile,   \* the current content of the mapping file read by getmap()
    handles,   \* every browser handle opened so far, in order of creation
    driver,    \* self.driver: index into handles
    pc,        \* where control is: "idle", "auth_check", "auth_test", "auth_body", "done";
               \* "returned" once send_messages_to_contact (example.py) has returned
    op,        \* the operation called last, with its inputs
    chk,       \* authenticate: the outcome of its latest check_auth call
    trace,     \* the events the operation issued, oldest first
    stdout,    \* what the operation printed
    ret        \* the operation's outcome: NoOutcome, Return(v) or Raise(e)

vars == <<CF, mapfile, handles, driver, pc, op, chk, trace, stdout, ret>>

\* ------------------------------------------------------------------ bounds

\* handles opened in one run (construction included)
MaxHandles == 3

\* message containers in one message block
MaxNodes == 2

\* characters in the time, the date and the sender of a drawn metadata string
MaxField == 2

\* characters in the text given to send_messages
MaxMessage == 3

\* ------------------------------------------------------------ Python values

PyTrue == [type |-> "bool", b |-> TRUE]
PyFalse == [type |-> "bool", b |-> FALSE]
PyNone == [type |-> "NoneType"]
PyStr(s) == [type |-> "str", s |-> s]
PyList(xs) == [type |-> "list", items |-> xs]
WebElement(by, value) == [type |-> "WebElement", by |-> by, value |-> value]

\* Python truth value: False, '' and None are falsy, an element object is truthy
Truthy(v) ==
    CASE v.type = "bool" -> v.b
      [] v.type = "NoneType" -> FALSE
      [] v.type = "str" -> v.s # <<>>
      [] v.type = "list" -> v.items # <<>>
      [] OTHER -> TRUE

NoOutcome == [kind |-> "none"]
Return(v) == [kind |-> "return", val |-> v]
Raise(e) == [kind |-> "raise", exc |-> e]

\* ------------------------------------------------------------ configuration

URL == "CF.bot.url"

\* the bot's display name in the configuration
BotNames == {<<"B", "o", "t">>}

\* the mapping file: a JSON object of logical name -> {type, value}, or unreadable
Unreadable == [readable |-> FALSE]
MapFull ==
    [readable |-> TRUE,
     map |-> [n \in {"logged", "home", "search", "message_input", "last_message",
                     "message_block", "load_more_messages"} |->
                 [type |-> "xpath", value |-> <<"v1", n>>]]]
MapEdited ==
    [readable |-> TRUE,
     map |-> [n \in {"logged", "home", "search", "message_input", "message_block"} |->
                 [type |-> "css selector", value |-> <<"v2", n>>]]]
MapContents == {MapFull, MapEdited, Unreadable}

\* the names a caller may pass to find_element ("nosuch" is in no mapping)
ElementNames ==
    {"logged", "home", "search", "message_input", "last_message", "message_block",
     "load_more_messages", "nosuch"}

\* what the browser answers to one driver.find_element(by, value)
QueryOutcome == {"found", "absent", "fault"}

\* ------------------------------------------------------------------ opendriver

\* a variant that takes the headless flag from the configuration alone
opendriver_ConfigOnly(headless) ==
    [live |-> TRUE, headless |-> CF.headless, url |-> "about:blank"]

\* opendriver(headless): --headless only when both the argument and the
\* configuration ask for it
opendriver(headless) ==
    [live |-> TRUE, headless |-> (headless /\ CF.headless), url |-> "about:blank"]

\* ------------------------------------------------------------------ getmap

\* getmap(): reads the mapping file at every call
getmap ==
    IF mapfile.readable THEN Return(mapfile.map) ELSE Raise("OSError")

\* ---------------------------------------------------------------- find_element

\* the try block of find_element: q is the browser's answer
find_element_try(element, q) ==
    LET mp == getmap IN
    IF mp.kind = "raise" THEN mp
    ELSE IF element \notin DOMAIN mp.val THEN Raise("KeyError")
    ELSE IF ~handles[driver].live THEN Raise("InvalidSessionIdException")
    ELSE IF q = "fault" THEN Raise("WebDriverException")
    ELSE IF q = "absent" THEN Raise("NoSuchElementException")
    ELSE Return(WebElement(mp.val[element].type, mp.val[element].value))

\* a variant whose except clause names NoSuchElementException only
find_element_OnlyNoSuchElement(element, q) ==
    LET r == find_element_try(element, q) IN
    IF r.kind = "raise" /\ r.exc = "NoSuchElementException" THEN Return(PyFalse) ELSE r

\* find_element: the bare except turns every exception into False
find_element(element, q) ==
    LET r == find_element_try(element, q) IN
    IF r.kind = "raise" THEN Return(PyFalse) ELSE r

FindEvent(element, r) == [ev |-> "find_element", name |-> element, res |-> r]

\* ------------------------------------------------------------------ check_auth

\* ui: the browser's answers for the two markers, [logged |-> q, home |-> q]
UIStates == [logged : QueryOutcome, home : QueryOutcome]

\* a variant that reports an unrecognised page as "not logged in"
check_auth_NoRaise(ui) ==
    LET l == find_element("logged", ui.logged)
        h == find_element("home", ui.home) IN
    IF l.kind = "return" /\ Truthy(l.val)
    THEN [out |-> Return(PyTrue), events |-> <<FindEvent("logged", l)>>]
    ELSE [out |-> Return(PyFalse), events |-> <<FindEvent("logged", l), FindEvent("home", h)>>]

\* check_auth: its outcome and the lookups it made
check_auth(ui) ==
    LET l == find_element("logged", ui.logged)
        h == find_element("home", ui.home) IN
    IF l.kind # "return" THEN [out |-> l, events |-> <<>>]
    ELSE IF Truthy(l.val)
    THEN [out |-> Return(PyTrue), events |-> <<FindEvent("logged", l)>>]
    ELSE IF h.kind # "return" THEN [out |-> h, events |-> <<FindEvent("logged", l)>>]
    ELSE IF Truthy(h.val)
    THEN [out |-> Return(PyFalse), events |-> <<FindEvent("logged", l), FindEvent("home", h)>>]
    ELSE [out |-> Raise("Exception: Whatsapp Web not found!"),
          events |-> <<FindEvent("logged", l), FindEvent("home", h)>>]

\* ------------------------------------------------------------ the call frame

NoOp == [name |-> "none"]

\* the handle list with handle h quit
QuitHandle(hs, h) == [hs EXCEPT ![h].live = FALSE]

\* the handle list with handle h navigated to the client URL
Navigate(hs, h) == [hs EXCEPT ![h].url = URL]

\* ------------------------------------------------------------------ Init

\* the state after WhatsBot(headless): one handle, navigated to the client URL
Init ==
    /\ CF \in [headless : BOOLEAN, name : BotNames]
    /\ mapfile \in MapContents
    /\ \E headless \in BOOLEAN :
          handles = Navigate(<<opendriver(headless)>>, 1)
    /\ driver = 1
    /\ pc = "idle"
    /\ op = NoOp
    /\ chk = PyNone
    /\ trace = <<>>
    /\ stdout = <<>>
    /\ ret = NoOutcome

\* the caller takes the outcome and is ready for its next call
Resume ==
    /\ pc = "done"
    /\ pc' = "idle"
    /\ op' = NoOp
    /\ chk' = PyNone
    /\ trace' = <<>>
    /\ stdout' = <<>>
    /\ ret' = NoOutcome
    /\ UNCHANGED <<CF, mapfile, handles, driver>>

\* somebody rewrites the mapping file while the bot runs
EditMapFile ==
    /\ pc # "done"
    /\ \E m \in MapContents \ {mapfile} : mapfile' = m
    /\ UNCHANGED <<CF, handles, driver, pc, op, chk, trace, stdout, ret>>

\* ---------------------------------------------------------------- quit_driver

\* quit_driver(): quits the handle self.driver refers to
CallQuitDriver ==
    /\ pc = "idle"
    /\ op' = [name |-> "quit_driver"]
    /\ stdout' = <<>>
    /\ handles' = QuitHandle(handles, driver)
    /\ trace' = <<[ev |-> "quit", h |-> driver]>>
    /\ ret' = Return(PyNone)
    /\ pc' = "done"
    /\ UNCHANGED <<CF, mapfile, driver, chk>>

\* ------------------------------------------------------- find_element, check_auth

\* find_element(element), called on its own
CallFindElement ==
    /\ pc = "idle"
    /\ \E element \in ElementNames, q \in QueryOutcome :
          /\ op' = [name |-> "find_element", element |-> element, q |-> q]
          /\ ret' = find_element(element, q)
    /\ trace' = <<>>
    /\ stdout' = <<>>
    /\ pc' = "done"
    /\ UNCHANGED <<CF, mapfile, handles, driver, chk>>

\* check_auth(), called on its own
CallCheckAuth ==
    /\ pc = "idle"
    /\ \E ui \in UIStates :
          /\ op' = [name |-> "check_auth", ui |-> ui]
          /\ ret' = check_auth(ui).out
          /\ trace' = check_auth(ui).events
    /\ stdout' = <<>>
    /\ pc' = "done"
    /\ UNCHANGED <<CF, mapfile, handles, driver, chk>>

\* ---------------------------------------------------------------- authenticate

CheckEvent(r) == [ev |-> "check_auth", lookups |-> r.events, out |-> r.out]
QuitEvent(h) == [ev |-> "quit", h |-> h]
OpenEvent(h, hd) == [ev |-> "open", h |-> h, headless |-> hd.headless]
GetEvent(h) == [ev |-> "get", h |-> h, url |-> URL]
SleepEvent(d) == [ev |-> "sleep", dur |-> d]

\* authenticate() is called: control is at the head of its while loop
CallAuthenticate ==
    /\ pc = "idle"
    /\ op' = [name |-> "authenticate", driver0 |-> driver, handles0 |-> handles]
    /\ trace' = <<>>
    /\ stdout' = <<>>
    /\ ret' = NoOutcome
    /\ chk' = PyNone
    /\ pc' = "auth_check"
    /\ UNCHANGED <<CF, mapfile, handles, driver>>

\* a variant that takes an exception of check_auth for "not logged in"
authenticate_after_check_Retry(out) ==
    IF out.kind = "raise"
    THEN [pc |-> "auth_test", ret |-> NoOutcome, chk |-> PyFalse]
    ELSE [pc |-> "auth_test", ret |-> NoOutcome, chk |-> out.val]

\* authenticate has no try: an exception of check_auth leaves it at once,
\* a returned value is the loop condition's operand
authenticate_after_check(out) ==
    IF out.kind = "raise"
    THEN [pc |-> "done", ret |-> out, chk |-> PyNone]
    ELSE [pc |-> "auth_test", ret |-> NoOutcome, chk |-> out.val]

\* the loop head calls self.check_auth()
AuthCheck ==
    /\ pc = "auth_check"
    /\ \E ui \in UIStates :
          LET r == check_auth(ui)
              n == authenticate_after_check(r.out) IN
          /\ trace' = Append(trace, CheckEvent(r))
          /\ ret' = n.ret
          /\ pc' = n.pc
          /\ chk' = n.chk
    /\ UNCHANGED <<CF, mapfile, handles, driver, op, stdout>>

\* the value authenticate returns once the loop ends
authenticate_result == PyTrue

\* a variant with the loop condition inverted
authenticate_loops_Inverted(c) == Truthy(c)

\* the loop condition: not self.check_auth()
authenticate_loops(c) == ~Truthy(c)

\* while not <check>: enter the body; otherwise return True
AuthTest ==
    /\ pc = "auth_test"
    /\ IF authenticate_loops(chk)
       THEN /\ pc' = "auth_body"
            /\ ret' = ret
       ELSE /\ pc' = "done"
            /\ ret' = Return(authenticate_result)
    /\ UNCHANGED <<CF, mapfile, handles, driver, op, chk, trace, stdout>>

\* the headless argument authenticate passes to opendriver
authenticate_headless == FALSE

\* the loop body: quit, opendriver(False), get(url), sleep(auth).  Opening the
\* new handle or navigating it may fail, and the exception leaves authenticate.
AuthReopen ==
    /\ pc = "auth_body"
    /\ Len(handles) < MaxHandles
    /\ \E fault \in {"none", "open", "get"} :
          LET h == Len(handles) + 1
              new == opendriver(authenticate_headless)
              quitted == QuitHandle(handles, driver) IN
          CASE fault = "open" ->
                  /\ handles' = quitted
                  /\ driver' = driver
                  /\ trace' = Append(trace, QuitEvent(driver))
                  /\ ret' = Raise("WebDriverException")
                  /\ pc' = "done"
            [] fault = "get" ->
                  /\ handles' = Append(quitted, new)
                  /\ driver' = h
                  /\ trace' = trace \o <<QuitEvent(driver), OpenEvent(h, new)>>
                  /\ ret' = Raise("WebDriverException")
                  /\ pc' = "done"
            [] OTHER ->
                  /\ handles' = Navigate(Append(quitted, new), h)
                  /\ driver' = h
                  /\ trace' = trace \o <<QuitEvent(driver), OpenEvent(h, new),
                                         GetEvent(h), SleepEvent("auth")>>
                  /\ ret' = ret
                  /\ pc' = "auth_check"
    /\ UNCHANGED <<CF, mapfile, op, chk, stdout>>

\* ------------------------------------------------------ the session controller

NextSession ==
    \/ CallFindElement
    \/ CallCheckAuth
    \/ CallAuthenticate
    \/ AuthCheck
    \/ AuthTest
    \/ AuthReopen
    \/ CallQuitDriver
    \/ EditMapFile
    \/ Resume

SpecSession == Init /\ [][NextSession]_vars

\* authenticate runs on: a thread in it takes its next step
SpecSessionFair == SpecSession /\ WF_vars(AuthCheck \/ AuthTest \/ AuthReopen)

\* ------------------------------------------- properties of the session controller

Last(sq) == sq[Len(sq)]

\* a lookup of marker m among the lookups, and whether one found the marker
Looked(lookups, m) == \E i \in DOMAIN lookups : lookups[i].name = m
Found(lookups, m) ==
    \E i \in DOMAIN lookups :
        /\ lookups[i].name = m
        /\ lookups[i].res.kind = "return"
        /\ lookups[i].res.val.type = "WebElement"

IsUnknownUI(out) ==
    out.kind = "raise" /\ out.exc = "Exception: Whatsapp Web not found!"

\* what the two marker lookups decide
CheckAuthContract(lookups, out) ==
    /\ Looked(lookups, "logged")
    /\ Found(lookups, "logged") => out = Return(PyTrue)
    /\ (~Found(lookups, "logged") /\ Found(lookups, "home")) => out = Return(PyFalse)
    /\ (~Found(lookups, "logged") /\ ~Found(lookups, "home")) =>
          /\ Looked(lookups, "home")
          /\ IsUnknownUI(out)

CheckAuthDone == pc = "done" /\ op.name = "check_auth"
AuthenticateDone == pc = "done" /\ op.name = "authenticate"

\* C1: check_auth's outcome is decided by the two marker lookups alone: True
\* when the logged-in marker is found (whatever the page holds for the
\* pre-login marker), else False when the pre-login marker is found, else the
\* "Whatsapp Web not found!" exception and no boolean.  It holds of a direct
\* call and of every call authenticate makes.
C1_CheckAuthOutcome ==
    /\ CheckAuthDone =>
          /\ CheckAuthContract(trace, ret)
          /\ (op.ui.logged = "found" /\ Found(trace, "logged")) =>
                \A q \in QueryOutcome :
                    check_auth([op.ui EXCEPT !.home = q]).out = Return(PyTrue)
    /\ op.name = "authenticate" =>
          \A i \in DOMAIN trace :
              trace[i].ev = "check_auth" =>
                  CheckAuthContract(trace[i].lookups, trace[i].out)

\* C1 witness: a direct check_auth found neither marker on a live, mapped page
C1_Witness ==
    /\ CheckAuthDone
    /\ op.ui.logged = "absent"
    /\ op.ui.home = "absent"
    /\ handles[driver].live
    /\ mapfile = MapFull
    /\ IsUnknownUI(ret)

IsCheck(e, v) == e.ev = "check_auth" /\ e.out = Return(v)

\* the k false checks that precede the first true one
ChecksFalseThenTrue(tr, k) ==
    /\ Len(tr) = 5 * k + 1
    /\ \A i \in 0 .. (k - 1) : IsCheck(tr[5 * i + 1], PyFalse)
    /\ IsCheck(tr[5 * k + 1], PyTrue)
    /\ \A i \in DOMAIN tr : tr[i].ev = "check_auth" => i % 5 = 1

\* cycle i (from 1) of authenticate started from driver d0 with n0 handles
ReopenCycle(tr, i, d0, n0) ==
    LET old == IF i = 1 THEN d0 ELSE n0 + i - 1
        new == n0 + i
        b == 5 * (i - 1) + 1 IN
    /\ tr[b + 1] = [ev |-> "quit", h |-> old]
    /\ tr[b + 2] = [ev |-> "open", h |-> new, headless |-> FALSE]
    /\ tr[b + 3] = [ev |-> "get", h |-> new, url |-> URL]
    /\ tr[b + 4] = [ev |-> "sleep", dur |-> "auth"]

NumChecks(tr) == Cardinality({i \in DOMAIN tr : tr[i].ev = "check_auth"})
NumFalseChecks(tr) == Cardinality({i \in DOMAIN tr : IsCheck(tr[i], PyFalse)})
NumOpens(tr) == Cardinality({i \in DOMAIN tr : tr[i].ev = "open"})

\* C2: when authenticate has returned after k checks that said False and one
\* that said True, it made k+1 check_auth calls and k reopen cycles, each one
\* quit(current handle), open(new handle, not headless), get(client URL),
\* sleep(auth); the result is True; with k = 0 handles and self.driver are
\* as they were.
C2_ReopenCycles ==
    (AuthenticateDone /\ trace # <<>> /\ IsCheck(Last(trace), PyTrue)) =>
        LET k == NumFalseChecks(trace)
            n0 == Len(op.handles0) IN
        /\ ret = Return(PyTrue)
        /\ ChecksFalseThenTrue(trace, k)
        /\ NumChecks(trace) = k + 1
        /\ NumOpens(trace) = k
        /\ \A i \in 1 .. k : ReopenCycle(trace, i, op.driver0, n0)
        /\ Len(handles) = n0 + k
        /\ k = 0 => (handles = op.handles0 /\ driver = op.driver0)
        /\ k > 0 =>
              /\ driver = n0 + k
              /\ handles[driver] = [live |-> TRUE, headless |-> FALSE, url |-> URL]
              /\ ~handles[op.driver0].live
              /\ \A h \in (n0 + 1) .. (n0 + k - 1) : ~handles[h].live

\* C2 witness: authenticate returned after two reopen cycles under a
\* configuration that asks for headless handles
C2_Witness ==
    /\ AuthenticateDone
    /\ ret = Return(PyTrue)
    /\ NumFalseChecks(trace) = 2
    /\ CF.headless

\* C3 (safety): authenticate returns only True, and only right after a
\* check_auth call that returned True
C3_ReturnsOnlyAfterTrue ==
    (op.name = "authenticate" /\ ret.kind = "return") =>
        /\ pc = "done"
        /\ ret.val = PyTrue
        /\ trace # <<>>
        /\ IsCheck(Last(trace), PyTrue)

\* C3 (no cap): after a check that returned False the loop body is entered,
\* whatever the number of cycles already made
C3_FalseKeepsCycling ==
    (pc = "auth_test" /\ chk = PyFalse) => (pc' = "auth_body" /\ ret'.kind = "none")

\* C3: authenticate returns only immediately after a check_auth call that
\* returned True and then returns True; a check that returned False always
\* leads into another cycle and never to a return; and once a check has
\* returned True authenticate terminates.
C3_LoopTermination ==
    /\ []C3_ReturnsOnlyAfterTrue
    /\ [][AuthTest => C3_FalseKeepsCycling]_vars
    /\ ((pc = "auth_test" /\ chk = PyTrue) ~> (AuthenticateDone /\ ret = Return(PyTrue)))

\* C3 witness: authenticate returned after at least one check said False
C3_Witness ==
    /\ AuthenticateDone
    /\ ret.kind = "return"
    /\ NumFalseChecks(trace) >= 1

\* C4: a check_auth call of authenticate that finds neither marker is the
\* last thing authenticate does: no quit, open, get or sleep follows it, and
\* its exception is authenticate's outcome.
C4_UnknownUINotRecovered ==
    op.name = "authenticate" =>
        \A i \in DOMAIN trace :
            (/\ trace[i].ev = "check_auth"
             /\ ~Found(trace[i].lookups, "logged")
             /\ ~Found(trace[i].lookups, "home")) =>
                /\ i = Len(trace)
                /\ pc = "done"
                /\ IsUnknownUI(ret)
                /\ ret = trace[i].out

\* C4 witness: the unknown page came up after a reopen cycle
C4_Witness ==
    /\ AuthenticateDone
    /\ IsUnknownUI(ret)
    /\ NumOpens(trace) >= 1
    /\ handles[driver].live

FindElementDone == pc = "done" /\ op.name = "find_element"

\* the mapping resolves the name and the handle is live
Resolvable(element) ==
    /\ mapfile.readable
    /\ element \in DOMAIN mapfile.map
    /\ handles[driver].live

\* C5: find_element never raises: for every name, mapping file, handle state
\* and browser answer it returns the located element or False, and False
\* alike for an absent element and for any fault.
C5_FindElementNeverRaises ==
    /\ FindElementDone =>
          /\ ret.kind = "return"
          /\ ret.val = PyFalse \/ ret.val.type = "WebElement"
          /\ (op.q # "found" \/ ~Resolvable(op.element)) => ret.val = PyFalse
          /\ (op.q = "found" /\ Resolvable(op.element)) =>
                ret.val = WebElement(mapfile.map[op.element].type,
                                     mapfile.map[op.element].value)
    /\ op.name = "check_auth" =>
          \A i \in DOMAIN trace : trace[i].res.kind = "return"

\* C5 witness: a lookup on a handle that has been quit
C5_Witness ==
    /\ FindElementDone
    /\ op.q = "found"
    /\ mapfile.readable
    /\ op.element \in DOMAIN mapfile.map
    /\ ~handles[driver].live
    /\ ret = Return(PyFalse)

\* ------------------------------------------------------------------ str methods

\* Python's whitespace, as far as these strings hold any
Whitespace == {" ", "\t", "\n"}

RECURSIVE lstrip(_, _)
\* str.lstrip(chars)
lstrip(s, chars) ==
    IF s # <<>> /\ Head(s) \in chars THEN lstrip(Tail(s), chars) ELSE s

RECURSIVE rstrip(_, _)
\* str.rstrip(chars)
rstrip(s, chars) ==
    IF s # <<>> /\ s[Len(s)] \in chars THEN rstrip(SubSeq(s, 1, Len(s) - 1), chars) ELSE s

\* str.strip(chars): every leading and trailing character that is in chars
strip(s, chars) == rstrip(lstrip(s, chars), chars)

\* s starts with sep
StartsWith(s, sep) == Len(s) >= Len(sep) /\ SubSeq(s, 1, Len(sep)) = sep

RECURSIVE split_from(_, _, _)
\* the pieces of s, the current piece having begun with cur
split_from(s, sep, cur) ==
    IF s = <<>> THEN <<cur>>
    ELSE IF StartsWith(s, sep)
    THEN <<cur>> \o split_from(SubSeq(s, Len(sep) + 1, Len(s)), sep, <<>>)
    ELSE split_from(Tail(s), sep, Append(cur, Head(s)))

\* str.split(sep) for a non-empty sep: cut at every occurrence, left to right
split(s, sep) == split_from(s, sep, <<>>)

\* ------------------------------------------------------- the message block's markup

\* an attribute or child that may be missing from the markup
Absent == [present |-> FALSE]
Present(s) == [present |-> TRUE, s |-> s]

\* a div.copyable-text: its data-pre-plain-text attribute and the text of its
\* span.selectable-text
Copyable(pre, span) == [present |-> TRUE, pre |-> pre, span |-> span]

\* a message container: its classes, the data-id of its nearest ancestor that
\* has one, and its first div.copyable-text
MessageNode(classes, data_id, copyable) ==
    [classes |-> classes, data_id |-> data_id, copyable |-> copyable]

\* ---------------------------------------------------------------- message_block

\* lines 203-208, a variant that strips only whitespace from the sender
pre_text_fields_SenderWhitespace(pre_text) ==
    LET parts == split(strip(pre_text, {"[", "]"}), <<"]">>) IN
    IF Len(parts) # 2 THEN Raise("ValueError")
    ELSE LET td == split(parts[1], <<",", " ">>) IN
         IF Len(td) # 2 THEN Raise("ValueError")
         ELSE Return([time |-> strip(td[1], Whitespace),
                      timestamp |-> strip(td[2], Whitespace),
                      sender |-> strip(parts[2], Whitespace)])

\* a variant that sets the sender as soon as the metadata is cut at "]"
pre_text_fields_SenderEarly(pre_text) ==
    LET parts == split(strip(pre_text, {"[", "]"}), <<"]">>) IN
    IF Len(parts) # 2 THEN Raise("ValueError")
    ELSE LET td == split(parts[1], <<",", " ">>) IN
         IF Len(td) # 2
         THEN Return([time |-> <<>>, timestamp |-> <<>>,
                      sender |-> strip(parts[2], {":", " "})])
         ELSE Return([time |-> strip(td[1], Whitespace),
                      timestamp |-> strip(td[2], Whitespace),
                      sender |-> strip(parts[2], {":", " "})])

\* lines 203-208: the two unpackings raise ValueError unless each split gives
\* exactly two pieces; the three fields are assigned after both
pre_text_fields(pre_text) ==
    LET parts == split(strip(pre_text, {"[", "]"}), <<"]">>) IN
    IF Len(parts) # 2 THEN Raise("ValueError")
    ELSE LET td == split(parts[1], <<",", " ">>) IN
         IF Len(td) # 2 THEN Raise("ValueError")
         ELSE Return([time |-> strip(td[1], Whitespace),
                      timestamp |-> strip(td[2], Whitespace),
                      sender |-> strip(parts[2], {":", " "})])

\* a variant of the except clause that blanks the three fields with None
except_pass_None(message_data, p) ==
    IF p.kind = "raise"
    THEN [message_data EXCEPT !.time = PyNone, !.timestamp = PyNone, !.sender = PyNone]
    ELSE [message_data EXCEPT !.time = PyStr(p.val.time),
                              !.timestamp = PyStr(p.val.timestamp),
                              !.sender = PyStr(p.val.sender)]

\* try ... except (ValueError, IndexError): pass
except_pass(message_data, p) ==
    IF p.kind = "raise"
    THEN message_data
    ELSE [message_data EXCEPT !.time = PyStr(p.val.time),
                              !.timestamp = PyStr(p.val.timestamp),
                              !.sender = PyStr(p.val.sender)]

\* 'in' if 'message-in' in msg.get('class', []) else 'out'
message_type(msg) ==
    IF "message-in" \in msg.classes THEN <<"i", "n">> ELSE <<"o", "u", "t">>

\* span.get_text(strip=True)
get_text_strip(span) == strip(span.s, Whitespace)

\* the body of the for loop: the record built for one message container
message_record(msg) ==
    LET md0 == [id |-> PyStr(<<>>), timestamp |-> PyStr(<<>>), time |-> PyStr(<<>>),
                sender |-> PyStr(<<>>), message |-> PyStr(<<>>),
                type |-> PyStr(message_type(msg))]
        md1 == IF msg.data_id.present
               THEN [md0 EXCEPT !.id = PyStr(msg.data_id.s)]
               ELSE md0
        pre_text == IF msg.copyable.present /\ msg.copyable.pre.present
                    THEN msg.copyable.pre.s
                    ELSE <<>>
        md2 == IF pre_text # <<>> THEN except_pass(md1, pre_text_fields(pre_text)) ELSE md1
        md3 == IF msg.copyable.present /\ msg.copyable.span.present
               THEN [md2 EXCEPT !.message = PyStr(get_text_strip(msg.copyable.span))]
               ELSE md2 IN
    md3

\* structured_messages after the loop over find_all(...), in document order
structured_messages(messages) ==
    [i \in 1 .. Len(messages) |-> message_record(messages[i])]

\* message_block(): '' when the block is not located; otherwise the records
\* are printed as JSON and the function ends without a return statement
message_block(found, messages) ==
    IF ~Truthy(found.val)
    THEN [out |-> Return(PyStr(<<>>)), printed |-> <<>>]
    ELSE [out |-> Return(PyNone), printed |-> <<structured_messages(messages)>>]

\* ------------------------------------------------------ the blocks message_block reads

StringsUpTo(chars, n) == UNION {[1 .. k -> chars] : k \in 0 .. n}

\* "[<time>, <date>] <sender>: ", the format of data-pre-plain-text
PrePlainText(time, date, sender) ==
    <<"[">> \o time \o <<",", " ">> \o date \o <<"]", " ">> \o sender \o <<":", " ">>

\* the example of the comment at bot.py:200
SampleTime == <<"1", "8", ":", "4", "3">>
SampleDate == <<"1", "5", "/", "1", "/", "2", "0", "2", "5">>
SampleSender == <<"D", "a", "n", " ", "R", "a", "d", "e", "a", "n", "d">>

TimeStrings == StringsUpTo({"1", " ", "[", ","}, MaxField) \cup {SampleTime}
DateStrings == StringsUpTo({"2", " "}, MaxField) \cup {SampleDate}
SenderStrings == StringsUpTo({"D", " ", ":", "]"}, MaxField) \cup {SampleSender}

SampleId == <<"m", "1">>
SampleText == <<" ", "h", "i", " ">>

\* the sample metadata with its opening bracket, its ", " separator or its
\* closing bracket left out
SampleMeta(open, sep, close) ==
    (IF open THEN <<"[">> ELSE <<>>) \o SampleTime
        \o (IF sep THEN <<",", " ">> ELSE <<" ">>) \o SampleDate
        \o (IF close THEN <<"]">> ELSE <<>>) \o <<" ">> \o SampleSender \o <<":", " ">>

SampleMetas ==
    {Absent, Present(<<>>)}
        \cup {Present(SampleMeta(o, s, c)) : o \in BOOLEAN, s \in BOOLEAN, c \in BOOLEAN}

\* the message containers blocks are built from
BlockNodes ==
    {MessageNode({c}, Present(SampleId), Copyable(pre, Present(SampleText))) :
        c \in {"message-in", "message-out"}, pre \in SampleMetas}
    \cup {MessageNode({"message-in", "message-out"}, Absent, Absent),
          MessageNode({"message-out"}, Present(<<>>),
                      Copyable(Present(SampleMeta(TRUE, TRUE, TRUE)), Absent))}

\* one inbound container whose metadata is drawn as "[t, d] s: "
DrawnNode(t, d, s) ==
    MessageNode({"message-in"}, Present(SampleId),
                Copyable(Present(PrePlainText(t, d, s)), Present(SampleText)))

\* the located blocks: up to MaxNodes containers in document order
Blocks == StringsUpTo(BlockNodes, MaxNodes)

\* message_block() on a page whose block, if located (q), holds messages
MessageBlockOn(q, messages, drawn) ==
    LET found == find_element("message_block", q)
        r == message_block(found, messages) IN
    /\ op' = [name |-> "message_block", q |-> q, messages |-> messages, drawn |-> drawn]
    /\ trace' = <<FindEvent("message_block", found)>>
    /\ IF found.kind = "raise"
       THEN /\ ret' = found
            /\ stdout' = <<>>
       ELSE /\ ret' = r.out
            /\ stdout' = r.printed

\* message_block(): the block is not located, or holds a block of Blocks, or
\* holds one container with drawn metadata
CallMessageBlock ==
    /\ pc = "idle"
    /\ \/ \E q \in {"absent", "fault"} : MessageBlockOn(q, <<>>, Absent)
       \/ \E b \in Blocks : MessageBlockOn("found", b, Absent)
       \/ \E t \in TimeStrings, d \in DateStrings, s \in SenderStrings :
             MessageBlockOn("found", <<DrawnNode(t, d, s)>>,
                            [present |-> TRUE, time |-> t, date |-> d, sender |-> s])
    /\ pc' = "done"
    /\ UNCHANGED <<CF, mapfile, handles, driver, chk>>

\* a bot whose mapping file is complete and whose configuration is not headless
InitSettled ==
    /\ Init
    /\ mapfile = MapFull
    /\ ~CF.headless

NextExtract ==
    \/ CallMessageBlock
    \/ Resume

SpecExtract == InitSettled /\ [][NextExtract]_vars

\* --------------------------------------------------- properties of message_block

MessageBlockDone == pc = "done" /\ op.name = "message_block"
BlockLocated == MessageBlockDone /\ op.q = "found"

Min(S) == CHOOSE x \in S : \A y \in S : x <= y
Max(S) == CHOOSE x \in S : \A y \in S : x >= y

\* s without its leading and trailing characters that are in chars
Trimmed(s, chars) ==
    LET keep == {i \in DOMAIN s : s[i] \notin chars} IN
    IF keep = {} THEN <<>> ELSE SubSeq(s, Min(keep), Max(keep))

\* sub occurs in s
Contains(s, sub) ==
    \E i \in 1 .. (Len(s) - Len(sub) + 1) : SubSeq(s, i, i + Len(sub) - 1) = sub

\* s up to its first c, all of s when it holds none
Before(s, c) ==
    LET at == {i \in DOMAIN s : s[i] = c} IN
    IF at = {} THEN s ELSE SubSeq(s, 1, Min(at) - 1)

Empty == PyStr(<<>>)
RecordFields == {"id", "timestamp", "time", "sender", "message", "type"}

\* the metadata attribute of a container, Absent when it has none
MetaOf(msg) == IF msg.copyable.present THEN msg.copyable.pre ELSE Absent

\* the direction and the text a container's record must carry
DirectionOf(msg) == IF "message-in" \in msg.classes THEN <<"i", "n">> ELSE <<"o", "u", "t">>
TextOf(msg) ==
    IF msg.copyable.present /\ msg.copyable.span.present
    THEN Trimmed(msg.copyable.span.s, Whitespace)
    ELSE <<>>

\* C6: a located block of N containers makes message_block return N records,
\* the i-th built from the i-th container; a block that is not located makes
\* it return an empty result.
C6_ReturnsRecordsInOrder ==
    /\ BlockLocated =>
          /\ ret.kind = "return"
          /\ ret.val.type = "list"
          /\ Len(ret.val.items) = Len(op.messages)
          /\ \A i \in DOMAIN op.messages : ret.val.items[i] = message_record(op.messages[i])
    /\ (MessageBlockDone /\ op.q # "found") =>
          /\ ret.kind = "return"
          /\ ~Truthy(ret.val)

\* the records message_block built: it prints them and returns nothing
PrintedRecords == stdout[1]

\* what message_block does with N containers: N records, in order, printed once
PrintsRecordsInOrder ==
    BlockLocated =>
        /\ Len(stdout) = 1
        /\ Len(PrintedRecords) = Len(op.messages)
        /\ \A i \in DOMAIN op.messages :
              /\ PrintedRecords[i].type = PyStr(DirectionOf(op.messages[i]))
              /\ PrintedRecords[i].message = PyStr(TextOf(op.messages[i]))

\* the metadata lacks a bracket or the ", " separator
Malformed(meta) ==
    \/ meta.s = <<>>
    \/ Head(meta.s) # "["
    \/ ~Contains(meta.s, <<"]">>)
    \/ ~Contains(meta.s, <<",", " ">>)

\* the metadata, its leading and trailing brackets removed, holds no "]", or
\* no ", " before its first "]"
Unparsable(meta) ==
    LET inner == Trimmed(meta.s, {"[", "]"}) IN
    \/ ~Contains(inner, <<"]">>)
    \/ ~Contains(Before(inner, "]"), <<",", " ">>)

\* every container has its record, with its direction, its text and no null
NodesKeepTheirRecords ==
    /\ Len(stdout) = 1
    /\ Len(PrintedRecords) = Len(op.messages)
    /\ \A i \in DOMAIN op.messages :
          /\ \A f \in RecordFields : PrintedRecords[i][f].type = "str"
          /\ PrintedRecords[i].type = PyStr(DirectionOf(op.messages[i]))
          /\ PrintedRecords[i].message = PyStr(TextOf(op.messages[i]))

MetaFieldsEmpty(r) == r.time = Empty /\ r.timestamp = Empty /\ r.sender = Empty

\* C7 as stated: a container whose metadata is missing, or lacks a bracket or
\* the ", " separator, has a record with empty time, date and sender, its
\* direction and its text; later containers keep their records; no field is
\* null.
C7_MalformedLeavesFieldsEmpty ==
    BlockLocated =>
        /\ NodesKeepTheirRecords
        /\ \A i \in DOMAIN op.messages :
              (~MetaOf(op.messages[i]).present \/ Malformed(MetaOf(op.messages[i]))) =>
                  MetaFieldsEmpty(PrintedRecords[i])

\* C7 as amended: the same of a container whose metadata is missing, or, its
\* leading and trailing brackets removed, holds no "]" or no ", " before its
\* first "]".  (Metadata that lacks only its opening "[" is parsed.)
C7_UnparsableLeavesFieldsEmpty ==
    BlockLocated =>
        /\ NodesKeepTheirRecords
        /\ \A i \in DOMAIN op.messages :
              (~MetaOf(op.messages[i]).present \/ Unparsable(MetaOf(op.messages[i]))) =>
                  MetaFieldsEmpty(PrintedRecords[i])

\* C7 witness: the first container has no closing bracket, the second no
\* copyable text at all, and the records of both are there
C7_Witness ==
    /\ BlockLocated
    /\ Len(op.messages) = 2
    /\ MetaOf(op.messages[1]) = Present(SampleMeta(TRUE, TRUE, FALSE))
    /\ ~op.messages[2].copyable.present
    /\ Len(PrintedRecords) = 2
    /\ MetaFieldsEmpty(PrintedRecords[1])
    /\ PrintedRecords[1].message = PyStr(<<"h", "i">>)
    /\ PrintedRecords[2].type = PyStr(<<"i", "n">>)

NoEdgeWhitespace(s) == s = <<>> \/ (Head(s) \notin Whitespace /\ Last(s) \notin Whitespace)

\* the premise of C8 on the three parts of "[<time>, <date>] <sender>: "
WellFormedParts(t, d, s) ==
    /\ ~Contains(t, <<",", " ">>) /\ ~Contains(t, <<"]">>)
    /\ ~Contains(d, <<",", " ">>) /\ ~Contains(d, <<"]">>)
    /\ ~Contains(s, <<"]">>)
    /\ s = <<>> \/ (Head(s) \notin {":", " "} /\ Last(s) \notin {":", " "})

DrawnPartsRecorded ==
    /\ Len(stdout) = 1
    /\ Len(PrintedRecords) = 1
    /\ PrintedRecords[1].time = PyStr(op.drawn.time)
    /\ PrintedRecords[1].timestamp = PyStr(op.drawn.date)
    /\ PrintedRecords[1].sender = PyStr(op.drawn.sender)

\* C8 as stated: metadata "[<time>, <date>] <sender>: " whose time and date hold
\* neither ", " nor "]" and whose sender holds no "]" and neither begins nor
\* ends with ":" or a space gives a record with exactly that time, date and
\* sender.
C8_ParsesEveryWellFormed ==
    (BlockLocated /\ op.drawn.present
        /\ WellFormedParts(op.drawn.time, op.drawn.date, op.drawn.sender)) =>
        DrawnPartsRecorded

\* C8 as amended: the same when, besides, time and date neither begin nor end
\* with whitespace and time does not begin with "[".
C8_ParsesTrimmedWellFormed ==
    (BlockLocated /\ op.drawn.present
        /\ WellFormedParts(op.drawn.time, op.drawn.date, op.drawn.sender)
        /\ NoEdgeWhitespace(op.drawn.time)
        /\ NoEdgeWhitespace(op.drawn.date)
        /\ (op.drawn.time = <<>> \/ Head(op.drawn.time) # "[")) =>
        DrawnPartsRecorded

\* C8 witness: "[18:43, 15/1/2025] Dan Radeand: "
C8_Witness ==
    /\ BlockLocated
    /\ op.drawn.present
    /\ op.messages[1].copyable.pre.s = PrePlainText(SampleTime, SampleDate, SampleSender)
    /\ PrintedRecords[1].time = PyStr(SampleTime)
    /\ PrintedRecords[1].timestamp = PyStr(SampleDate)
    /\ PrintedRecords[1].sender = PyStr(SampleSender)

\* ---------------------------------------------------------------- send_messages

ENTER == <<"ENTER">>
SHIFT_ENTER == <<"SHIFT", "ENTER">>

ClickEvent == [ev |-> "click"]
KeysEvent(keys) == [ev |-> "send_keys", keys |-> keys]

\* one send_keys call per character of text
TypeEach(text) == [i \in 1 .. Len(text) |-> KeysEvent(<<text[i]>>)]

\* the marker typed before the message, ":robot"
robot_marker == <<":", "r", "o", "b", "o", "t">>

\* " *{}* :\n".format(CF['bot']['name'])
message_title == <<" ", "*">> \o CF.name \o <<"*", " ", ":", "\n">>

\* a variant that ends a line with the plain submit key
line_end_keys_Enter == ENTER

\* the keys sent after the characters of a line
line_end_keys == SHIFT_ENTER

RECURSIVE type_lines(_)
\* the for loop over message.split('\n'): each line's characters, then the
\* line-end keys, for every line
type_lines(lines) ==
    IF lines = <<>> THEN <<>>
    ELSE TypeEach(Head(lines)) \o <<KeysEvent(line_end_keys)>> \o type_lines(Tail(lines))

\* a variant that types the title after the caller's text
send_messages_events_TitleLast(message) ==
    <<ClickEvent>>
        \o TypeEach(robot_marker)
        \o <<KeysEvent(ENTER)>>
        \o type_lines(split(message \o <<"\n">> \o message_title, <<"\n">>))
        \o <<KeysEvent(ENTER)>>

\* what send_messages does to the located input when nothing fails
send_messages_events(message) ==
    <<ClickEvent>>
        \o TypeEach(robot_marker)
        \o <<KeysEvent(ENTER)>>
        \o type_lines(split(message_title \o message, <<"\n">>))
        \o <<KeysEvent(ENTER)>>

\* send_messages(message): the lookup result is used without a test, so False
\* has no click(); the interaction numbered fail raises (0: none does)
send_messages(found, message, fail) ==
    LET events == send_messages_events(message) IN
    IF found.kind = "raise" THEN [out |-> found, events |-> <<>>]
    ELSE IF found.val.type # "WebElement"
    THEN [out |-> Raise("AttributeError"), events |-> <<>>]
    ELSE IF fail = 0 THEN [out |-> Return(PyNone), events |-> events]
    ELSE [out |-> Raise("WebDriverException"), events |-> SubSeq(events, 1, fail - 1)]

Messages == StringsUpTo({"a", "b", "\n"}, MaxMessage)

\* send_messages(message)
CallSendMessages ==
    /\ pc = "idle"
    /\ \E q \in QueryOutcome, message \in Messages :
          \E fail \in 0 .. Len(send_messages_events(message)) :
              LET found == find_element("message_input", q)
                  r == send_messages(found, message, fail) IN
              /\ (q = "found" \/ fail = 0)
              /\ op' = [name |-> "send_messages", q |-> q, message |-> message, fail |-> fail]
              /\ trace' = <<FindEvent("message_input", found)>> \o r.events
              /\ ret' = r.out
    /\ stdout' = <<>>
    /\ pc' = "done"
    /\ UNCHANGED <<CF, mapfile, handles, driver, chk>>

NextSend ==
    \/ CallSendMessages
    \/ Resume

SpecSend == InitSettled /\ [][NextSend]_vars

\* ------------------------------------------------- the frame of the page operations

\* a variant in which the operation quits the browser on its way
page_operation_frame_Quits ==
    /\ handles' = QuitHandle(handles, driver)
    /\ UNCHANGED <<CF, mapfile, driver, chk>>

\* open_contact, last_message and load_more_messages assign no attribute of
\* self and call neither quit() nor opendriver()
page_operation_frame ==
    UNCHANGED <<CF, mapfile, handles, driver, chk>>

\* ---------------------------------------------------------------- open_contact

\* entries (titled spans) in the page when open_contact looks for the contact
MaxEntries == 2

\* the contact names asked for and the titles the page shows
Contacts == {<<"a">>, <<"b">>, <<"a", "'">>}
EntryLists == StringsUpTo(Contacts, MaxEntries)

CONTROL_A == <<"CONTROL", "A">>
ClickOn(target) == [ev |-> "click", target |-> target]
ClickEntry(i) == [ev |-> "click_entry", entry |-> i]

\* "//span[@title = '{}']".format(contact): the name is pasted between quotes
xpath_format(contact) == <<"//span[@title = ", "'">> \o contact \o <<"'", "]">>

\* how the browser reads that expression: the string literal ends at the next
\* quote, and "]" must follow it; anything else is not an XPath expression
xpath_title(xpath) ==
    LET body == SubSeq(xpath, 3, Len(xpath))
        quotes == {i \in DOMAIN body : body[i] = "'"}
        close == CHOOSE i \in quotes : \A j \in quotes : i <= j IN
    IF SubSeq(body, close + 1, Len(body)) = <<"]">>
    THEN Return(SubSeq(body, 1, close - 1))
    ELSE Raise("InvalidSelectorException")

\* search.find_element("xpath", xpath) on a page whose titled spans are titles,
\* in document order: the first span the expression selects
find_entry(xpath, titles, fault) ==
    LET t == xpath_title(xpath)
        hits == {i \in DOMAIN titles : t.kind = "return" /\ titles[i] = t.val} IN
    IF fault THEN Raise("WebDriverException")
    ELSE IF t.kind = "raise" THEN t
    ELSE IF hits = {} THEN Raise("NoSuchElementException")
    ELSE Return(CHOOSE i \in hits : \A j \in hits : i <= j)

EntryEvent(xpath, r) == [ev |-> "find_entry", xpath |-> xpath, res |-> r]

\* what open_contact does to the search input before its try block
open_contact_typing(contact) ==
    <<ClickOn("search"), KeysEvent(CONTROL_A)>> \o TypeEach(contact)

\* the interactions of open_contact are numbered: the typing, then the entry
\* lookup, then the click on the entry
EntryLookupStep(contact) == Len(open_contact_typing(contact)) + 1
EntryClickStep(contact) == Len(open_contact_typing(contact)) + 2

\* the try block: the lookup and the click are both inside it, and the bare
\* except answers False to whatever either raises
open_contact_try(e, click_fails) ==
    IF e.kind = "raise" THEN [out |-> Return(PyFalse), events |-> <<>>]
    ELSE IF click_fails THEN [out |-> Return(PyFalse), events |-> <<>>]
    ELSE [out |-> Return(PyTrue), events |-> <<ClickEntry(e.val)>>]

\* open_contact(contact): the lookup result is used without a test, so False
\* has no click(); the interaction numbered fail raises (0: none does)
open_contact(found, contact, titles, fail) ==
    LET typing == open_contact_typing(contact)
        xpath == xpath_format(contact)
        e == find_entry(xpath, titles, fail = EntryLookupStep(contact))
        t == open_contact_try(e, fail = EntryClickStep(contact)) IN
    IF found.val.type # "WebElement"
    THEN [out |-> Raise("AttributeError"), events |-> <<>>]
    ELSE IF fail \in 1 .. Len(typing)
    THEN [out |-> Raise("WebDriverException"), events |-> SubSeq(typing, 1, fail - 1)]
    ELSE [out |-> t.out,
          events |-> typing \o <<SleepEvent("default"), EntryEvent(xpath, e)>> \o t.events]

\* open_contact(contact)
CallOpenContact ==
    /\ pc = "idle"
    /\ \E q \in QueryOutcome, contact \in Contacts, titles \in EntryLists :
          \E fail \in 0 .. EntryClickStep(contact) :
              LET found == find_element("search", q)
                  r == open_contact(found, contact, titles, fail) IN
              /\ (q = "found" \/ (fail = 0 /\ titles = <<>>))
              /\ op' = [name |-> "open_contact", q |-> q, contact |-> contact,
                        titles |-> titles, fail |-> fail]
              /\ trace' = <<FindEvent("search", found)>> \o r.events
              /\ ret' = r.out
    /\ stdout' = <<>>
    /\ pc' = "done"
    /\ page_operation_frame

\* ---------------------------------------------------------------- last_message

\* the texts the last message may show
MessageTexts == {<<>>, <<"h", "i">>}

\* last_message(): str(elem.text) if the element was found, else ''
last_message(found, text) ==
    IF Truthy(found.val) THEN Return(PyStr(text)) ELSE Return(PyStr(<<>>))

\* last_message()
CallLastMessage ==
    /\ pc = "idle"
    /\ \E q \in QueryOutcome, text \in MessageTexts :
          LET found == find_element("last_message", q) IN
          /\ (q = "found" \/ text = <<>>)
          /\ op' = [name |-> "last_message", q |-> q, text |-> text]
          /\ trace' = <<FindEvent("last_message", found)>>
          /\ ret' = last_message(found, text)
    /\ stdout' = <<>>
    /\ pc' = "done"
    /\ page_operation_frame

\* ---------------------------------------------------------- load_more_messages

\* load_more_messages(): click and wait if the control was found, else False
load_more_messages(found, click_fails) ==
    IF ~Truthy(found.val) THEN [out |-> Return(PyFalse), events |-> <<>>]
    ELSE IF click_fails THEN [out |-> Raise("WebDriverException"), events |-> <<>>]
    ELSE [out |-> Return(PyTrue),
          events |-> <<ClickOn("load_more_messages"), SleepEvent("default")>>]

\* load_more_messages()
CallLoadMoreMessages ==
    /\ pc = "idle"
    /\ \E q \in QueryOutcome, click_fails \in BOOLEAN :
          LET found == find_element("load_more_messages", q)
              r == load_more_messages(found, click_fails) IN
          /\ (q = "found" \/ ~click_fails)
          /\ op' = [name |-> "load_more_messages", q |-> q, fail |-> click_fails]
          /\ trace' = <<FindEvent("load_more_messages", found)>> \o r.events
          /\ ret' = r.out
    /\ stdout' = <<>>
    /\ pc' = "done"
    /\ page_operation_frame

\* ------------------------------------------------------------ the operations

\* the operations on an open chat page, called one after another
NextOperate ==
    \/ CallOpenContact
    \/ CallLastMessage
    \/ CallMessageBlock
    \/ CallSendMessages
    \/ CallLoadMoreMessages
    \/ Resume

SpecOperate == InitSettled /\ [][NextOperate]_vars

\* ------------------------------------------------------- the bot, on sample pages

\* message blocks of one container
SampleBlocks == {<<n>> : n \in BlockNodes}

\* message_block() on a page whose block is not located, is empty, or holds
\* one container
CallMessageBlockOnSample ==
    /\ pc = "idle"
    /\ \/ \E q \in {"absent", "fault"} : MessageBlockOn(q, <<>>, Absent)
       \/ \E b \in SampleBlocks \cup {<<>>} : MessageBlockOn("found", b, Absent)
    /\ pc' = "done"
    /\ UNCHANGED <<CF, mapfile, handles, driver, chk>>

\* every operation of the bot, in any order, on any session
NextBot ==
    \/ NextSession
    \/ CallOpenContact
    \/ CallLastMessage
    \/ CallMessageBlockOnSample
    \/ CallSendMessages
    \/ CallLoadMoreMessages

SpecBot == Init /\ [][NextBot]_vars

\* ------------------------------------------- send_messages_to_contact (example.py)

\* bot = WhatsBot(headless=False)
InitExample ==
    /\ Init
    /\ handles = Navigate(<<opendriver(FALSE)>>, 1)

\* bot.authenticate(), the first call
ExampleAuthenticate ==
    /\ op = NoOp
    /\ CallAuthenticate

\* a call of the bot returns into send_messages_to_contact, which goes on
\* knowing which call it made and the value it got; an exception is not caught
\* there and ends the program
ExampleTakeResult ==
    /\ pc = "done"
    /\ ret.kind = "return"
    /\ op.name # "quit_driver"
    /\ pc' = "idle"
    /\ op' = [name |-> op.name]
    /\ trace' = <<>>
    /\ stdout' = <<>>
    /\ UNCHANGED <<CF, mapfile, handles, driver, chk, ret>>

\* control is at the contact prompt: after authenticate, after an open_contact
\* that returned False or was followed by an unknown option, after "!end" in
\* the message loop, after last_message, after a message block without 'more',
\* or after a load_more_messages that returned False
AtContactPrompt ==
    /\ pc = "idle"
    /\ \/ op.name \in {"authenticate", "open_contact", "send_messages", "last_message",
                       "message_block"}
       \/ op.name = "load_more_messages" /\ ~Truthy(ret.val)

\* control is at the option prompt: open_contact has just returned True
AtOptionPrompt ==
    /\ pc = "idle"
    /\ op.name = "open_contact"
    /\ Truthy(ret.val)

\* control is at the message prompt: option "1" has just been chosen, or a
\* message has just been sent
AtMessagePrompt ==
    \/ AtOptionPrompt
    \/ pc = "idle" /\ op.name = "send_messages"

\* a contact name is typed: bot.open_contact(contact)
ExampleOpenContact ==
    /\ AtContactPrompt
    /\ CallOpenContact

\* a message is typed that is neither "!end" nor "!quit": bot.send_messages(message)
ExampleSendMessages ==
    /\ AtMessagePrompt
    /\ CallSendMessages

\* option "2": bot.last_message()
ExampleLastMessage ==
    /\ AtOptionPrompt
    /\ CallLastMessage

\* option "3", or 'more' after a load_more_messages that returned True:
\* bot.message_block()
ExampleMessageBlock ==
    /\ \/ AtOptionPrompt
       \/ pc = "idle" /\ op.name = "load_more_messages" /\ Truthy(ret.val)
    /\ CallMessageBlock

\* 'more' is typed after a message block: bot.load_more_messages()
ExampleLoadMore ==
    /\ pc = "idle"
    /\ op.name = "message_block"
    /\ CallLoadMoreMessages

\* "!quit" at the contact prompt: break, then bot.quit_driver()
ExampleQuitAtContactPrompt ==
    /\ AtContactPrompt
    /\ CallQuitDriver

\* quit_driver has returned: send_messages_to_contact ends
ExampleEnd ==
    /\ pc = "done"
    /\ op.name = "quit_driver"
    /\ pc' = "returned"
    /\ UNCHANGED <<CF, mapfile, handles, driver, op, chk, trace, stdout, ret>>

\* "!quit" at the message prompt: return
ExampleQuitAtMessagePrompt ==
    /\ AtMessagePrompt
    /\ pc' = "returned"
    /\ UNCHANGED <<CF, mapfile, handles, driver, op, chk, trace, stdout, ret>>

NextExample ==
    \/ ExampleAuthenticate
    \/ AuthCheck
    \/ AuthTest
    \/ AuthReopen
    \/ ExampleTakeResult
    \/ ExampleOpenContact
    \/ ExampleSendMessages
    \/ ExampleLastMessage
    \/ ExampleMessageBlock
    \/ ExampleLoadMore
    \/ ExampleQuitAtContactPrompt
    \/ ExampleEnd
    \/ ExampleQuitAtMessagePrompt

SpecExample == InitExample /\ [][NextExample]_vars

\* ------------------------------------------------------------------ the bot

Next ==
    \/ NextSession
    \/ CallOpenContact
    \/ CallLastMessage
    \/ CallMessageBlock
    \/ CallSendMessages
    \/ CallLoadMoreMessages

Spec == Init /\ [][Next]_vars

\* --------------------------------------------------- properties of send_messages

SendDone == pc = "done" /\ op.name = "send_messages"
SendCompleted == SendDone /\ ret = Return(PyNone)

\* the events sent to the message input, the lookup left out
InputEvents == Tail(trace)

\* the events after the warm-up (click, ":robot", ENTER)
WarmUpLen == 1 + Len(robot_marker) + 1
ComposedEvents == SubSeq(InputEvents, WarmUpLen + 1, Len(InputEvents))

IsKeys(e, keys) == e.ev = "send_keys" /\ e.keys = keys
Count(sq, keys) == Cardinality({i \in DOMAIN sq : IsKeys(sq[i], keys)})

\* the composed text and the number of lines it splits into
Composed == message_title \o op.message
NumLines == 1 + Cardinality({i \in DOMAIN Composed : Composed[i] = "\n"})

\* the characters typed, in order: the key events that are neither ENTER nor
\* SHIFT+ENTER
IsChar(e) == e.ev = "send_keys" /\ e.keys # ENTER /\ e.keys # SHIFT_ENTER
RECURSIVE TypedText(_)
TypedText(sq) ==
    IF sq = <<>> THEN <<>>
    ELSE (IF IsChar(Head(sq)) THEN Head(sq).keys ELSE <<>>) \o TypedText(Tail(sq))

WithoutNewlines(text) == SelectSeq(text, LAMBDA c : c # "\n")

\* C9: for composed text of L lines, SHIFT+ENTER is sent between consecutive
\* lines only, never after the last line: L-1 times in all.
C9_SoftNewlineBetweenLinesOnly ==
    SendCompleted =>
        /\ Count(ComposedEvents, SHIFT_ENTER) = NumLines - 1
        /\ ~IsKeys(ComposedEvents[Len(ComposedEvents) - 1], SHIFT_ENTER)

\* what the loop does: one SHIFT+ENTER after every line, the last included
SoftNewlineAfterEveryLine ==
    SendCompleted =>
        /\ Count(ComposedEvents, SHIFT_ENTER) = NumLines
        /\ IsKeys(ComposedEvents[Len(ComposedEvents) - 1], SHIFT_ENTER)

\* C10: after the warm-up, ENTER is sent once, as the last key event of a
\* send_messages that completes, when every character of every line has been
\* typed; a send_messages that fails on the way has sent no ENTER before the
\* characters were all typed.
C10_SubmitOnceAtEnd ==
    /\ SendCompleted =>
          /\ Count(ComposedEvents, ENTER) = 1
          /\ IsKeys(Last(ComposedEvents), ENTER)
          /\ TypedText(ComposedEvents) = WithoutNewlines(Composed)
    /\ (SendDone /\ Len(InputEvents) > WarmUpLen) =>
          \A i \in DOMAIN ComposedEvents :
              IsKeys(ComposedEvents[i], ENTER) =>
                  /\ i = Len(ComposedEvents)
                  /\ TypedText(ComposedEvents) = WithoutNewlines(Composed)

\* C10 witness: a text of three lines was sent
C10_Witness ==
    /\ SendCompleted
    /\ op.message = <<"a", "\n", "b">>
    /\ Count(ComposedEvents, ENTER) = 1
    /\ IsKeys(Last(ComposedEvents), ENTER)

\* ----------------------------------------------------- properties of open_contact

OpenContactDone == pc = "done" /\ op.name = "open_contact"

\* the search input was located and typed into without a failure
ContactTyped == OpenContactDone /\ op.q = "found" /\ op.fail \notin 1 .. Len(op.contact) + 2

\* the entries whose title is the contact name, the entries clicked
Matching == {i \in DOMAIN op.titles : op.titles[i] = op.contact}
EntryClicks == SelectSeq(trace, LAMBDA e : e.ev = "click_entry")
EntryLookupFaults == op.fail = Len(op.contact) + 3
EntryClickFails == op.fail = Len(op.contact) + 4

\* C11: once the search input is located, open_contact(name) clicks exactly
\* one entry, the first whose title equals name, and returns True when there is
\* such an entry; when there is none, or the entry lookup faults, it clicks no
\* entry and returns False.
C11_SelectsFirstExactMatch ==
    (ContactTyped /\ ~EntryClickFails) =>
        IF Matching # {} /\ ~EntryLookupFaults
        THEN /\ ret = Return(PyTrue)
             /\ Len(EntryClicks) = 1
             /\ EntryClicks[1].entry \in Matching
             /\ \A i \in Matching : EntryClicks[1].entry <= i
        ELSE /\ ret = Return(PyFalse)
             /\ EntryClicks = <<>>

\* the same for the names that hold no quote character
C11_SelectsFirstMatchOfPlainName ==
    (ContactTyped /\ ~EntryClickFails /\ ~Contains(op.contact, <<"'">>)) =>
        IF Matching # {} /\ ~EntryLookupFaults
        THEN /\ ret = Return(PyTrue)
             /\ Len(EntryClicks) = 1
             /\ EntryClicks[1].entry \in Matching
             /\ \A i \in Matching : EntryClicks[1].entry <= i
        ELSE /\ ret = Return(PyFalse)
             /\ EntryClicks = <<>>

\* ------------------------------------------- properties of the element lookups

\* an operation that starts with a lookup of its own element has ended
PrimaryLookupOps ==
    {"open_contact", "last_message", "message_block", "send_messages",
     "load_more_messages"}
OperationDone == pc = "done" /\ op.name \in PrimaryLookupOps

\* its element was not located: find_element answered False
PrimaryNotFound == OperationDone /\ trace[1].res = Return(PyFalse)

\* the clicks, key events and waits of the operation
Interactions ==
    SelectSeq(trace, LAMBDA e : e.ev \in {"click", "click_entry", "send_keys", "sleep"})

\* C12: when an operation's own element is not located, the operation raises
\* nothing: open_contact and load_more_messages return False, last_message and
\* message_block return an empty result, and no click, key event or wait is
\* performed.
C12_NotFoundIsConverted ==
    PrimaryNotFound =>
        /\ ret.kind = "return"
        /\ op.name \in {"open_contact", "load_more_messages"} => ret = Return(PyFalse)
        /\ op.name \in {"last_message", "message_block"} => ret = Return(Empty)
        /\ Interactions = <<>>

\* what holds of the three operations that test the lookup result
NotFoundIsConvertedWhereTested ==
    (PrimaryNotFound /\ op.name \in {"last_message", "message_block", "load_more_messages"}) =>
        /\ op.name = "load_more_messages" => ret = Return(PyFalse)
        /\ op.name \in {"last_message", "message_block"} => ret = Return(Empty)
        /\ Interactions = <<>>

\* -------------------------------------- properties of the clicks and key events

\* a click or a key event on the located element, or on the located contact
\* entry, failed
InteractionFailed ==
    /\ pc = "done"
    /\ op.name \in {"open_contact", "send_messages", "load_more_messages"}
    /\ op.q = "found"
    /\ CASE op.name = "open_contact" ->
                \/ op.fail \in 1 .. Len(op.contact) + 2
                \/ EntryClickFails /\ Matching # {} /\ ~Contains(op.contact, <<"'">>)
         [] op.name = "send_messages" -> op.fail # 0
         [] op.name = "load_more_messages" -> op.fail

\* C13: a click or key event that fails on a located element leaves the
\* operation as an error, in open_contact, send_messages and
\* load_more_messages alike; it is neither retried nor turned into a boolean,
\* and a failed click on the located contact entry is not answered with False.
C13_InteractionFailurePropagates ==
    InteractionFailed =>
        /\ ret.kind = "raise"
        /\ ret # Return(PyFalse)

\* what holds: an interaction with the element found by find_element fails
InputInteractionFailed ==
    InteractionFailed /\ (op.name = "open_contact" => ~EntryClickFails)
InputInteractionFailurePropagates ==
    InputInteractionFailed => ret = Raise("WebDriverException")

\* ---------------------------------------------------- properties of the handle

\* the operations that are not to touch the handle
HandleReaders ==
    {"find_element", "check_auth", "open_contact", "last_message", "message_block",
     "send_messages", "load_more_messages"}

HandleEvents == {"quit", "open", "get"}
NoHandleEvent(t) == \A i \in DOMAIN t : t[i].ev \notin HandleEvents

\* C14: only construction and authenticate replace the browser handle.
\* find_element, check_auth, open_contact, last_message, message_block,
\* send_messages and load_more_messages, whether they succeed or fail, leave
\* self.driver and every handle as they were and neither open nor quit a
\* handle; so does the check_auth that authenticate calls.
C14_OnlyAuthenticateReplacesHandle ==
    [][/\ driver' # driver => (op.name = "authenticate" /\ pc = "auth_body")
       /\ (pc = "idle" /\ op'.name \in HandleReaders) =>
             /\ driver' = driver
             /\ handles' = handles
             /\ NoHandleEvent(trace')
       /\ pc = "auth_check" => (driver' = driver /\ handles' = handles)]_vars

\* C14 witness: on a handle opened by authenticate, open_contact failed for
\* want of the search input and the handle is still the live one
C14_Witness ==
    /\ pc = "done"
    /\ driver = 2
    /\ handles[2].live
    /\ ~handles[1].live
    /\ op.name = "open_contact"
    /\ ret = Raise("AttributeError")

\* ------------------------------------------------- properties of the registry

\* the lookups authenticate has made so far, through check_auth, oldest first
RECURSIVE LookupsOf(_)
LookupsOf(t) ==
    IF t = <<>> THEN <<>>
    ELSE (IF Head(t).ev = "check_auth" THEN Head(t).lookups ELSE <<>>) \o LookupsOf(Tail(t))

\* a lookup that resolved its name and located the element: it tells the
\* (strategy kind, selector value) pair it used
Resolved(l) == l.res.kind = "return" /\ l.res.val.type = "WebElement"

\* C15: any two find_element resolutions of one logical name, at any two
\* points of a run and whatever happens to the mapping file in between, use
\* the same (strategy kind, selector value) pair.
C15_RegistryLookupIdempotent ==
    op.name = "authenticate" =>
        LET ls == LookupsOf(trace) IN
        \A i, j \in DOMAIN ls :
            (ls[i].name = ls[j].name /\ Resolved(ls[i]) /\ Resolved(ls[j])) =>
                /\ ls[i].res.val.by = ls[j].res.val.by
                /\ ls[i].res.val.value = ls[j].res.val.value

\* what holds: every resolution uses the pair the mapping file holds at the
\* moment of the lookup
ResolutionFollowsMappingFile ==
    [][(pc = "auth_check" /\ Len(trace') = Len(trace) + 1) =>
          LET ls == Last(trace').lookups IN
          \A i \in DOMAIN ls :
              Resolved(ls[i]) =>
                  ls[i].res.val = WebElement(mapfile.map[ls[i].name].type,
                                             mapfile.map[ls[i].name].value)]_vars

\* ------------------------------------------- properties of the handle's lifecycle

LiveHandles == {h \in DOMAIN handles : handles[h].live}

\* in the trace of authenticate, every opening of a handle comes right after
\* the quit of the handle that was current
QuitBeforeEveryOpen ==
    op.name = "authenticate" =>
        \A i \in DOMAIN trace :
            trace[i].ev = "open" =>
                /\ i > 1
                /\ trace[i - 1].ev = "quit"
                /\ trace[i - 1].h = trace[i].h - 1

\* C16: at most one browser handle is live in every reachable state; whenever
\* authenticate reopens the browser the old handle is quit before the new one
\* is opened; and when authenticate has ended, also by failing to open the new
\* handle, self.driver refers to a live handle for the operation that starts
\* next.
C16_HandleLifecycle ==
    /\ Cardinality(LiveHandles) <= 1
    /\ QuitBeforeEveryOpen
    /\ (AuthenticateDone /\ op.handles0[op.driver0].live) => handles[driver].live

\* what holds: never two live handles, quit before open, and a live handle
\* after every authenticate that returned
HandleLifecycleOnReturn ==
    /\ Cardinality(LiveHandles) <= 1
    /\ QuitBeforeEveryOpen
    /\ (AuthenticateDone /\ ret.kind = "return" /\ op.handles0[op.driver0].live) =>
          handles[driver].live

\* ------------------------------------------ properties of the order of send_messages

\* text cut at its newline characters, by the positions of the newlines
NewlinesOf(text) == {i \in DOMAIN text : text[i] = "\n"}
LineStart(text, k) ==
    IF k = 1 THEN 1
    ELSE 1 + Max({i \in NewlinesOf(text) :
                     Cardinality({j \in NewlinesOf(text) : j <= i}) = k - 1})
LineEnd(text, k) ==
    IF k = Cardinality(NewlinesOf(text)) + 1 THEN Len(text)
    ELSE Min({i \in NewlinesOf(text) :
                 Cardinality({j \in NewlinesOf(text) : j <= i}) = k}) - 1
LinesOf(text) ==
    [k \in 1 .. Cardinality(NewlinesOf(text)) + 1 |->
        SubSeq(text, LineStart(text, k), LineEnd(text, k))]

\* the signature line: the display name between asterisks, then " :"
SignatureLine == <<" ", "*">> \o CF.name \o <<"*", " ", ":">>

\* the lines send_messages is to type: the signature, then the caller's lines
ExpectedLines == <<SignatureLine>> \o LinesOf(op.message)

\* the key events that type lines: each character in its own event, each line
\* followed by SHIFT+ENTER
RECURSIVE LineEvents(_)
LineEvents(lines) ==
    IF lines = <<>> THEN <<>>
    ELSE [i \in 1 .. Len(Head(lines)) |-> [ev |-> "send_keys", keys |-> <<Head(lines)[i]>>]]
             \o <<[ev |-> "send_keys", keys |-> SHIFT_ENTER]>>
             \o LineEvents(Tail(lines))

\* the whole of what a send_messages without failure is to emit
ExpectedInputEvents ==
    <<[ev |-> "click"]>>
        \o [i \in DOMAIN robot_marker |-> [ev |-> "send_keys", keys |-> <<robot_marker[i]>>]]
        \o <<[ev |-> "send_keys", keys |-> ENTER]>>
        \o LineEvents(ExpectedLines)
        \o <<[ev |-> "send_keys", keys |-> ENTER]>>

IsPrefix(a, b) == Len(a) <= Len(b) /\ a = SubSeq(b, 1, Len(a))

\* C17: send_messages emits its events in a fixed order: the click on the
\* message input, the warm-up marker one character per key event, one ENTER,
\* and only then the composed text, whose first typed line is the signature
\* line with the bot's display name, followed by the lines of the caller's text
\* in order; every key event of the content carries exactly one character, and
\* no character of the caller's text is typed before the warm-up ENTER.
C17_FixedEventOrder ==
    (SendDone /\ op.q = "found") =>
        /\ IsPrefix(InputEvents, ExpectedInputEvents)
        /\ SendCompleted => InputEvents = ExpectedInputEvents
        /\ \A i \in DOMAIN InputEvents :
              IsChar(InputEvents[i]) => Len(InputEvents[i].keys) = 1

\* C17 witness: a text of two lines was sent to the end, the signature line
\* first
C17_Witness ==
    /\ SendCompleted
    /\ op.message = <<"a", "\n", "b">>
    /\ InputEvents[1] = ClickEvent
    /\ IsKeys(InputEvents[WarmUpLen], ENTER)
    /\ TypedText(ComposedEvents) = SignatureLine \o <<"a", "b">>
    /\ IsKeys(Last(InputEvents), ENTER)

\* ------------------------------------- properties of the metadata of one container

\* time and date of "[<time>, <date>] <sender>: " are plain: no separator, no
\* bracket, no whitespace at their ends
PlainTimeAndDate(t, d) ==
    /\ ~Contains(t, <<",", " ">>) /\ ~Contains(t, <<"]">>) /\ ~Contains(t, <<"[">>)
    /\ ~Contains(d, <<",", " ">>) /\ ~Contains(d, <<"]">>)
    /\ NoEdgeWhitespace(t)
    /\ NoEdgeWhitespace(d)

\* the sender holds a "]" and neither begins nor ends with ":" or a space
SenderWithBracket(s) ==
    /\ Contains(s, <<"]">>)
    /\ Head(s) \notin {":", " "}
    /\ Last(s) \notin {":", " "}

\* C18: the metadata is cut at its first "]" only: for metadata
\* "[<time>, <date>] <sender>: " whose sender holds one or more "]", the
\* record still gets the time, the date and the whole sender, its "]" included.
C18_SplitsAtFirstBracketOnly ==
    (BlockLocated /\ op.drawn.present
        /\ PlainTimeAndDate(op.drawn.time, op.drawn.date)
        /\ SenderWithBracket(op.drawn.sender)) =>
        DrawnPartsRecorded

\* what the code does with such metadata: time, date and sender stay empty
SenderBracketLeavesFieldsEmpty ==
    (BlockLocated /\ op.drawn.present
        /\ PlainTimeAndDate(op.drawn.time, op.drawn.date)
        /\ SenderWithBracket(op.drawn.sender)) =>
        /\ Len(PrintedRecords) = 1
        /\ MetaFieldsEmpty(PrintedRecords[1])

\* ---------------------------------------- properties of the fields of one record

\* where sub occurs in s, and the parts of s around its first occurrence
Occurrences(s, sub) ==
    {i \in 1 .. (Len(s) - Len(sub) + 1) : SubSeq(s, i, i + Len(sub) - 1) = sub}
Ahead(s, sub) == SubSeq(s, 1, Min(Occurrences(s, sub)) - 1)
Behind(s, sub) == SubSeq(s, Min(Occurrences(s, sub)) + Len(sub), Len(s))

\* the metadata cuts in two at "]" and its first part cuts in two at ", "
CutsInTwoTwice(meta) ==
    LET inner == Trimmed(meta.s, {"[", "]"}) IN
    /\ Cardinality(Occurrences(inner, <<"]">>)) = 1
    /\ Cardinality(Occurrences(Ahead(inner, <<"]">>), <<",", " ">>)) = 1

\* the three metadata fields of record r are those of one parse of meta
FieldsOfOneParse(r, meta) ==
    LET inner == Trimmed(meta.s, {"[", "]"})
        stamp == Ahead(inner, <<"]">>) IN
    /\ r.time = PyStr(Trimmed(Ahead(stamp, <<",", " ">>), Whitespace))
    /\ r.timestamp = PyStr(Trimmed(Behind(stamp, <<",", " ">>), Whitespace))
    /\ r.sender = PyStr(Trimmed(Behind(inner, <<"]">>), {":", " "}))

IdOf(msg) == IF msg.data_id.present THEN msg.data_id.s ELSE <<>>

\* C19: time, date and sender of a record are all three taken from one
\* successful parse of its container's metadata, or all three empty; a parse
\* that fails part-way leaves none of them set, and changes neither the id,
\* nor the direction, nor the text of the record.
C19_MetaFieldsAllOrNothing ==
    BlockLocated =>
        /\ Len(PrintedRecords) = Len(op.messages)
        /\ \A i \in DOMAIN op.messages :
              LET r == PrintedRecords[i]
                  meta == MetaOf(op.messages[i]) IN
              /\ IF meta.present /\ CutsInTwoTwice(meta)
                 THEN FieldsOfOneParse(r, meta)
                 ELSE MetaFieldsEmpty(r)
              /\ r.id = PyStr(IdOf(op.messages[i]))
              /\ r.type = PyStr(DirectionOf(op.messages[i]))
              /\ r.message = PyStr(TextOf(op.messages[i]))

\* C19 witness: the metadata of the first container cuts at "]" but its first
\* part has no ", ": the parse fails at its second step and the record has its
\* id and text and no metadata; the second container is parsed in full
C19_Witness ==
    /\ BlockLocated
    /\ Len(op.messages) = 2
    /\ MetaOf(op.messages[1]).present
    /\ Cardinality(Occurrences(Trimmed(MetaOf(op.messages[1]).s, {"[", "]"}), <<"]">>)) = 1
    /\ ~CutsInTwoTwice(MetaOf(op.messages[1]))
    /\ MetaFieldsEmpty(PrintedRecords[1])
    /\ PrintedRecords[1].id # Empty
    /\ PrintedRecords[1].message # Empty
    /\ MetaOf(op.messages[2]).present
    /\ CutsInTwoTwice(MetaOf(op.messages[2]))
    /\ PrintedRecords[2].sender = PyStr(SampleSender)

\* ----------------------------------- properties of send_messages_to_contact

\* a call of operation n is made in this step
Issues(n) == pc = "idle" /\ pc' # "idle" /\ pc' # "returned" /\ op'.name = n

\* C20: however send_messages_to_contact finishes normally ("!quit" at the
\* contact prompt, "!quit" in the message loop), it has quit the browser handle
\* through quit_driver before it returns, and it issues no operation of the bot
\* after that; it issues send_messages only after authenticate has returned and
\* open_contact has returned True for the current contact.
C20_QuitsDriverOnEveryExit ==
    [][/\ pc' = "returned" => (op'.name = "quit_driver" /\ ~handles'[driver'].live)
       /\ op.name = "quit_driver" => op'.name = "quit_driver"
       /\ Issues("open_contact") =>
             (op.name # "none" /\ (op.name = "authenticate" => ret = Return(PyTrue)))
       /\ Issues("send_messages") =>
             \/ op.name = "open_contact" /\ ret = Return(PyTrue)
             \/ op.name = "send_messages" /\ ret.kind = "return"]_vars

\* what holds: the exit at the contact prompt quits the handle, nothing is
\* issued after quit_driver, and send_messages comes after open_contact
QuitsDriverAtContactPrompt ==
    [][/\ (pc' = "returned" /\ op.name = "quit_driver") => ~handles'[driver'].live
       /\ op.name = "quit_driver" => op'.name = "quit_driver"
       /\ Issues("open_contact") =>
             (op.name # "none" /\ (op.name = "authenticate" => ret = Return(PyTrue)))
       /\ Issues("send_messages") =>
             \/ op.name = "open_contact" /\ ret = Return(PyTrue)
             \/ op.name = "send_messages" /\ ret.kind = "return"]_vars

====
